---- MODULE Spec2Model ----
(***************************************************************************)
(* Model of the entity aggregation and comparison core of ner_controller:  *)
(* Levenshtein utilities, fuzzy deduplication, the entity diff calculator, *)
(* the composite entity extractor, the overlapping text chunker and the    *)
(* GLiNER extractor's text segmenter; and the services and extractors that  *)
(* use them.                                                               *)
(*                                                                         *)
(* A Python str is a sequence of one-character strings.  The letters are   *)
(* "a", "b" and their capitals "A", "B"; " " is the whitespace character   *)
(* (the segmenter's texts also hold "." and the line break).              *)
(***************************************************************************)
EXTENDS Integers, Sequences, FiniteSets, TLC

VARIABLES
    \* levenshtein_utils: arguments and results of the string functions
    s1, s2, s3, distance, similar, str_pc,
    \* deduplicate_entities: arguments and results
    entities, threshold, unique_entities, unique_again, dedup_pc,
    \* EntityDiffCalculator.calculate: arguments and EntityDiffResult
    request_entities, response_entities, diff_result, diff_pc,
    \* CompositeEntityExtractor: self._extractors, the call and its locals
    extractors, comp_text, entity_types, ext_idx, all_entities, calls,
    comp_result, comp_raised, comp_pc,
    \* TextChunker.split_text: arguments and locals
    text, chunk_size, chunk_overlap, start_id, position, chunk_id, chunks,
    chunk_error, chunk_pc,
    \* GlinerEntityExtractor._split_for_model: argument, configuration, locals
    seg_text, max_chars, min_chars, normalized, start, segments, iterations,
    seg_pc,
    \* TextProcessingService.process_text: arguments, collaborators, locals
    tp_text, tp_entity_types, tp_extractor, tp_generator, normalized_text,
    target_entity_types, tp_entities, tp_calls, tp_result, tp_error, tp_pc,
    \* NatashaEntityExtractor: the model files, the instance fields, the calls made
    model_files, _ner_model, _disabled, load_calls, extract_log,
    \* GlinerEntityExtractor._load_model: self._model, and the requests that call extract
    _model, loaded_count, request_pc, request_model, request_calls, models_used,
    \* FileProcessingService.process_file: the chunker's chunks, the collaborators, the stages
    fp_chunks, fp_extractor, fp_generator, chunks_with_entities, extract_calls,
    chunks_with_embeddings, fp_entities, fp_pc

strVars == <<s1, s2, s3, distance, similar, str_pc>>
dedupVars == <<entities, threshold, unique_entities, unique_again, dedup_pc>>
diffVars == <<request_entities, response_entities, diff_result, diff_pc>>
compVars == <<extractors, comp_text, entity_types, ext_idx, all_entities, calls,
              comp_result, comp_raised, comp_pc>>
chunkVars == <<text, chunk_size, chunk_overlap, start_id, position, chunk_id,
               chunks, chunk_error, chunk_pc>>
segVars == <<seg_text, max_chars, min_chars, normalized, start, segments,
             iterations, seg_pc>>
tpVars == <<tp_text, tp_entity_types, tp_extractor, tp_generator, normalized_text,
            target_entity_types, tp_entities, tp_calls, tp_result, tp_error, tp_pc>>
natVars == <<model_files, _ner_model, _disabled, load_calls, extract_log>>
loadVars == <<_model, loaded_count, request_pc, request_model, request_calls, models_used>>
fileVars == <<fp_chunks, fp_extractor, fp_generator, chunks_with_entities, extract_calls,
              chunks_with_embeddings, fp_entities, fp_pc>>
vars == <<strVars, dedupVars, diffVars, compVars, chunkVars, segVars, tpVars, natVars,
          loadVars, fileVars>>

\* A result that has not been computed yet (never compared with a result).
None == "None"

\* threshold: int | None is a sequence holding the int, or nothing.
NoThreshold == <<>>
Threshold(n) == <<n>>

(***************************************************************************)
(* Bounds of the model.                                                    *)
(***************************************************************************)
MaxStrLen == 3          \* longest argument of levenshtein_distance explored exhaustively
MaxEdits == 5           \* most letters changed in a generated mention of the similarity pool
MentionLen == 4         \* length of the generated mentions of the deduplication pool
MaxMentions == 3        \* longest list given to deduplicate_entities
MaxDiffMentions == 2    \* longest request / response list given to calculate
MaxExtractors == 2      \* most backends of a composite extractor
MaxBackendOut == 2      \* most mentions one backend returns
MaxTextLen == 6         \* longest text given to split_text
MaxChunkSize == 4       \* largest chunk_size / chunk_overlap given to split_text
MaxSegTextLen == 5      \* longest text given to _split_for_model
MaxSegmentChars == 3    \* largest configured max_segment_chars
MaxMinSegmentChars == 2 \* largest configured min_segment_chars
MaxIterations == 7      \* most iterations of the loop of _split_for_model followed
MaxServiceTextLen == 3  \* longest text given to process_text
MaxNatashaCalls == 4    \* most calls of extract on one NatashaEntityExtractor
MaxRequests == 2        \* most requests served at the same time
MaxGlinerCalls == 2     \* most calls of extract made by the requests of one worker
MaxWords == 3           \* most words of a chunk text given to _split_text_for_ner
MaxChunks == 2          \* most chunks the chunker returns to process_file
MaxScript == 2          \* length of the longest cycle of extractor outcomes

Min(x, y) == IF x <= y THEN x ELSE y
Max(x, y) == IF x >= y THEN x ELSE y

\* All sequences over S of length at most n.
SeqsUpTo(S, n) == UNION {[1..k -> S] : k \in 0..n}

(***************************************************************************)
(* str.strip() and str.casefold()                                          *)
(***************************************************************************)
IsSpace_blank_only(c) == c = " "

\* whitespace: what str.strip() strips and the pattern \s matches
IsSpace(c) == c \in {" ", "\n"}

casefold_char(c) == IF c = "A" THEN "a" ELSE IF c = "B" THEN "b" ELSE c

casefold(s) == [i \in 1..Len(s) |-> casefold_char(s[i])]

RECURSIVE lstrip(_)
lstrip(s) == IF s # <<>> /\ IsSpace(Head(s)) THEN lstrip(Tail(s)) ELSE s

RECURSIVE rstrip(_)
rstrip(s) ==
    IF s # <<>> /\ IsSpace(s[Len(s)]) THEN rstrip(SubSeq(s, 1, Len(s) - 1)) ELSE s

strip_none(s) == s

strip(s) == rstrip(lstrip(s))

(***************************************************************************)
(* levenshtein_distance (levenshtein_utils.py:49-77)                       *)
(***************************************************************************)
Min3(x, y, z) == Min(x, Min(y, z))

substitution_cost_always(c1, c2) == 1

\* (c1 != c2), a bool added to an int
substitution_cost(c1, c2) == IF c1 # c2 THEN 1 ELSE 0

\* The inner loop: current_row after the characters j.. of s2 (j is 1-based,
\* Python's j is j - 1), started from current_row = [i + 1].  The appended row
\* is bound through a singleton set so that it is computed once.
RECURSIVE current_row(_, _, _, _, _)
current_row(previous_row, row, c1, str2, j) ==
    IF j > Len(str2) THEN row
    ELSE LET insertions == previous_row[j + 1] + 1
             deletions == row[j] + 1
             substitutions == previous_row[j] + substitution_cost(c1, str2[j])
         IN CHOOSE r \in {current_row(previous_row, appended, c1, str2, j + 1) :
                              appended \in {Append(row, Min3(insertions, deletions,
                                                             substitutions))}} : TRUE

\* The outer loop over the characters of s1 (i is 1-based, so [i + 1] is <<i>>).
RECURSIVE lev_rows(_, _, _, _)
lev_rows(previous_row, str1, str2, i) ==
    IF i > Len(str1) THEN previous_row
    ELSE CHOOSE r \in {lev_rows(row, str1, str2, i + 1) :
                           row \in {current_row(previous_row, <<i>>, str1[i], str2, 1)}} : TRUE

levenshtein_distance(a, b) ==
    LET long == IF Len(a) < Len(b) THEN b ELSE a
        short == IF Len(a) < Len(b) THEN a ELSE b
    IN IF Len(short) = 0 THEN Len(long)
       ELSE LET last == lev_rows([k \in 1..(Len(short) + 1) |-> k - 1], long, short, 1)
            IN last[Len(last)]

(***************************************************************************)
(* normalized_similarity (levenshtein_utils.py:6-46)                       *)
(***************************************************************************)
relative_threshold_ceil(max_length) == Max(3, (max_length * 2 + 9) \div 10)

\* max(3, int(max_length * threshold_percent)) with threshold_percent = 0.2.
\* The double nearest 0.2 lies just above 1/5 and every integer is a double,
\* so the rounded product never falls below max_length / 5 nor reaches the
\* next integer: int() yields floor(max_length * 2 / 10).
relative_threshold(max_length) == Max(3, (max_length * 2) \div 10)

normalized_similarity(a, b) ==
    LET s1_normalized == casefold(strip(a))
        s2_normalized == casefold(strip(b))
    IN IF s1_normalized = s2_normalized THEN TRUE
       ELSE levenshtein_distance(s1_normalized, s2_normalized)
                <= relative_threshold(Max(Len(s1_normalized), Len(s2_normalized)))

(***************************************************************************)
(* deduplicate_entities (levenshtein_utils.py:80-129)                      *)
(***************************************************************************)
\* As is_duplicate_of, but the legacy branch compares the entity as given,
\* without entity.strip().
is_duplicate_of_unstripped(entity, seen_entity, thr) ==
    IF thr # NoThreshold
    THEN LET entity_normalized == casefold(entity)
             seen_normalized == casefold(strip(seen_entity))
         IN \/ entity_normalized = seen_normalized
            \/ levenshtein_distance(entity_normalized, seen_normalized) <= thr[1]
    ELSE normalized_similarity(entity, seen_entity)

\* The body of the inner loop: is entity a duplicate of seen_entity?
is_duplicate_of(entity, seen_entity, thr) ==
    IF thr # NoThreshold
    THEN LET entity_normalized == casefold(strip(entity))
             seen_normalized == casefold(strip(seen_entity))
         IN \/ entity_normalized = seen_normalized
            \/ levenshtein_distance(entity_normalized, seen_normalized) <= thr[1]
    ELSE normalized_similarity(entity, seen_entity)

\* As dedup_loop, but is_duplicate is overwritten by every comparison, so only
\* the comparison with the last accepted entity counts.
RECURSIVE dedup_loop_compare_last(_, _, _, _)
dedup_loop_compare_last(ents, unique, thr, i) ==
    IF i > Len(ents) THEN unique
    ELSE LET is_duplicate ==
                 /\ unique # <<>>
                 /\ is_duplicate_of(ents[i], unique[Len(unique)], thr)
         IN CHOOSE r \in {dedup_loop_compare_last(ents, grown, thr, i + 1) :
                              grown \in {IF is_duplicate THEN unique
                                         ELSE Append(unique, strip(ents[i]))}} : TRUE

\* As dedup_loop, but the normalized form used for comparison is appended.
RECURSIVE dedup_loop_append_casefolded(_, _, _, _)
dedup_loop_append_casefolded(ents, unique, thr, i) ==
    IF i > Len(ents) THEN unique
    ELSE LET is_duplicate ==
                 \E k \in 1..Len(unique) : is_duplicate_of(ents[i], unique[k], thr)
         IN CHOOSE r \in {dedup_loop_append_casefolded(ents, grown, thr, i + 1) :
                              grown \in {IF is_duplicate THEN unique
                                         ELSE Append(unique, casefold(strip(ents[i])))}} : TRUE

\* The outer loop over entities[i..], unique being the list built so far.
RECURSIVE dedup_loop(_, _, _, _)
dedup_loop(ents, unique, thr, i) ==
    IF i > Len(ents) THEN unique
    ELSE LET is_duplicate ==
                 \E k \in 1..Len(unique) : is_duplicate_of(ents[i], unique[k], thr)
         IN CHOOSE r \in {dedup_loop(ents, grown, thr, i + 1) :
                              grown \in {IF is_duplicate THEN unique
                                         ELSE Append(unique, strip(ents[i]))}} : TRUE

deduplicate_entities(ents, thr) ==
    IF ents = <<>> THEN <<>> ELSE dedup_loop(ents, <<>>, thr, 1)

(***************************************************************************)
(* Inputs of the string functions                                          *)
(***************************************************************************)
LevAlphabet == {"a", "b"}

\* Every string over LevAlphabet of length at most MaxStrLen.
LevStrings == SeqsUpTo(LevAlphabet, MaxStrLen)

Rep(c, n) == [i \in 1..n |-> c]

\* n letters, the last k of them "b" and the others "a".
Letters(n, k) == Rep("a", n - k) \o Rep("b", k)

upper_char(c) == IF c = "a" THEN "A" ELSE IF c = "b" THEN "B" ELSE c

upper(s) == [i \in 1..Len(s) |-> upper_char(s[i])]

\* Lengths on both sides of the points where max(3, int(0.2 * n)) changes.
SimLengths == {0, 4, 5, 19, 20, 24}

\* Mentions of those lengths, plain and in capitals between spaces.
SimPool ==
    UNION {{Letters(n, k), <<" ">> \o upper(Letters(n, k)) \o <<" ">>} :
               <<n, k>> \in {p \in SimLengths \X (0..MaxEdits) : p[2] <= p[1]}}

StrIdle ==
    /\ s1 = <<>> /\ s2 = <<>> /\ s3 = <<>>
    /\ distance = None /\ similar = None /\ str_pc = "idle"

DedupIdle ==
    /\ entities = <<>> /\ threshold = NoThreshold
    /\ unique_entities = None /\ unique_again = None /\ dedup_pc = "idle"

DiffIdle ==
    /\ request_entities = <<>> /\ response_entities = <<>>
    /\ diff_result = None /\ diff_pc = "idle"

CompIdle ==
    /\ extractors = <<>> /\ comp_text = <<>> /\ entity_types = <<>>
    /\ ext_idx = 0 /\ all_entities = <<>> /\ calls = <<>>
    /\ comp_result = None /\ comp_raised = FALSE /\ comp_pc = "idle"

ChunkIdle ==
    /\ text = <<>> /\ chunk_size = 1 /\ chunk_overlap = 0 /\ start_id = 0
    /\ position = 0 /\ chunk_id = 0 /\ chunks = <<>>
    /\ chunk_error = FALSE /\ chunk_pc = "idle"

SegIdle ==
    /\ seg_text = <<>> /\ max_chars = 1 /\ min_chars = 0
    /\ normalized = <<>> /\ start = 0 /\ segments = <<>>
    /\ iterations = 0 /\ seg_pc = "idle"

TpIdle ==
    /\ tp_text = <<>> /\ tp_entity_types = <<>>
    /\ tp_extractor = [raises |-> FALSE, returns |-> <<>>]
    /\ tp_generator = [raises |-> FALSE, returns |-> <<>>]
    /\ normalized_text = <<>> /\ target_entity_types = <<>> /\ tp_entities = <<>>
    /\ tp_calls = <<>> /\ tp_result = <<>> /\ tp_error = "none" /\ tp_pc = "idle"

NatIdle ==
    /\ model_files = "missing" /\ _ner_model = <<>> /\ _disabled = FALSE
    /\ load_calls = 0 /\ extract_log = <<>>

LoadIdle ==
    /\ _model = <<>> /\ loaded_count = 0 /\ models_used = <<>>
    /\ request_pc = <<>> /\ request_model = <<>> /\ request_calls = <<>>

FileIdle ==
    /\ fp_chunks = <<>> /\ fp_extractor = <<>>
    /\ fp_generator = [raises |-> FALSE, returns |-> <<>>]
    /\ chunks_with_entities = <<>> /\ extract_calls = <<>>
    /\ chunks_with_embeddings = <<>> /\ fp_entities = <<>> /\ fp_pc = "idle"

(***************************************************************************)
(* levenshtein_distance applied to every triple of short strings           *)
(***************************************************************************)
LevInit ==
    /\ s1 \in LevStrings /\ s2 \in LevStrings /\ s3 \in LevStrings
    /\ distance = None /\ similar = None /\ str_pc = "call"
    /\ DedupIdle /\ DiffIdle /\ CompIdle /\ ChunkIdle /\ SegIdle /\ TpIdle
    /\ NatIdle /\ LoadIdle /\ FileIdle

CallLevenshtein ==
    /\ str_pc = "call"
    /\ distance' = [ab |-> levenshtein_distance(s1, s2),
                    ba |-> levenshtein_distance(s2, s1),
                    bc |-> levenshtein_distance(s2, s3),
                    ac |-> levenshtein_distance(s1, s3)]
    /\ str_pc' = "done"
    /\ UNCHANGED <<s1, s2, s3, similar>>
    /\ UNCHANGED <<dedupVars, diffVars, compVars, chunkVars, segVars, tpVars,
                   natVars, loadVars, fileVars>>

LevNext == CallLevenshtein

SpecLev == LevInit /\ [][LevNext]_vars

(***************************************************************************)
(* normalized_similarity applied to every pair of the similarity pool      *)
(***************************************************************************)
SimInit ==
    /\ s1 \in SimPool /\ s2 \in SimPool /\ s3 = <<>>
    /\ distance = None /\ similar = None /\ str_pc = "call"
    /\ DedupIdle /\ DiffIdle /\ CompIdle /\ ChunkIdle /\ SegIdle /\ TpIdle
    /\ NatIdle /\ LoadIdle /\ FileIdle

CallNormalizedSimilarity ==
    /\ str_pc = "call"
    /\ similar' = normalized_similarity(s1, s2)
    /\ str_pc' = "done"
    /\ UNCHANGED <<s1, s2, s3, distance>>
    /\ UNCHANGED <<dedupVars, diffVars, compVars, chunkVars, segVars, tpVars,
                   natVars, loadVars, fileVars>>

SimNext == CallNormalizedSimilarity

SpecSim == SimInit /\ [][SimNext]_vars

(***************************************************************************)
(* Edit distance by definition: the length of a shortest path of single-   *)
(* character insertions, deletions and substitutions.  Intermediate        *)
(* strings may be one character longer than the longest argument.          *)
(***************************************************************************)
EditNeighbours(s) ==
    {SubSeq(s, 1, i - 1) \o SubSeq(s, i + 1, Len(s)) : i \in 1..Len(s)}
    \cup {[s EXCEPT ![p[1]] = p[2]] : p \in (1..Len(s)) \X LevAlphabet}
    \cup IF Len(s) > MaxStrLen THEN {}
         ELSE {SubSeq(s, 1, p[1]) \o <<p[2]>> \o SubSeq(s, p[1] + 1, Len(s)) :
                   p \in (0..Len(s)) \X LevAlphabet}

\* Number of rounds of single edits after which target is first reached.
RECURSIVE EditSteps(_, _, _)
EditSteps(reached, target, k) ==
    IF target \in reached THEN k
    ELSE EditSteps(reached \cup UNION {EditNeighbours(t) : t \in reached}, target, k + 1)

MinEditsTable == [a \in LevStrings |-> [b \in LevStrings |-> EditSteps({a}, b, 0)]]

MinEdits(a, b) == MinEditsTable[a][b]

\* C6: levenshtein_distance(a, b) is the minimum number of single-character
\* insertions, deletions and substitutions turning a into b; it is symmetric,
\* zero exactly when a = b, and satisfies d(a, c) <= d(a, b) + d(b, c).
C6_LevenshteinIsMinEditMetric ==
    str_pc = "done" =>
        /\ distance.ab = MinEdits(s1, s2)
        /\ distance.ab = distance.ba
        /\ (distance.ab = 0 <=> s1 = s2)
        /\ distance.ac <= distance.ab + distance.bc

\* A substitution, a deletion and an insertion are each needed somewhere.
C6_Witness ==
    /\ str_pc = "done"
    /\ s1 = <<"a", "b", "a">> /\ s2 = <<"b", "a">> /\ s3 = <<"b", "b", "b">>
    /\ distance.ab = 1 /\ distance.bc = 2 /\ distance.ac = 2

\* Canonical form of a mention, stated directly: the part between its first
\* and last non-whitespace character, in lower case.
Trimmed(s) ==
    LET solid == {i \in 1..Len(s) : ~IsSpace(s[i])}
    IN IF solid = {} THEN <<>>
       ELSE SubSeq(s, CHOOSE i \in solid : \A j \in solid : i <= j,
                      CHOOSE i \in solid : \A j \in solid : i >= j)

Lowered(s) ==
    [i \in 1..Len(s) |-> IF s[i] = "A" THEN "a" ELSE IF s[i] = "B" THEN "b" ELSE s[i]]

Canonical(s) == Lowered(Trimmed(s))

\* floor(0.2 * n): the largest t with 5 * t <= n.
FloorFifth(n) == CHOOSE t \in 0..n : 5 * t <= n /\ n < 5 * (t + 1)

\* s without its whitespace characters, letter case ignored.
BareLetters(s) == upper(SelectSeq(s, LAMBDA c : ~IsSpace(c)))

\* C5: normalized_similarity(a, b) is true exactly when the trimmed, case-folded
\* forms are equal or their edit distance is at most
\* max(3, floor(0.2 * max length of the canonical forms)); strings differing only
\* in case and surrounding whitespace are always similar.
C5_SimilarityIsRelativeThreshold ==
    str_pc = "done" =>
        LET ca == Canonical(s1)
            cb == Canonical(s2)
            limit == Max(3, FloorFifth(Max(Len(ca), Len(cb))))
        IN /\ similar <=> (ca = cb \/ levenshtein_distance(ca, cb) <= limit)
           /\ BareLetters(s1) = BareLetters(s2) => similar

\* " AAAAAAAAAAAAAAAAAAAA " and "aaaaaaaaaaaaaaaabbbb": 4 edits on canonical
\* forms of length 20 are within max(3, 4).
C5_Witness ==
    /\ str_pc = "done"
    /\ s1 = <<" ">> \o upper(Letters(20, 0)) \o <<" ">>
    /\ s2 = Letters(20, 4)
    /\ similar = TRUE

(***************************************************************************)
(* deduplicate_entities applied to a list of mentions, then to its result  *)
(***************************************************************************)
\* "", " ", the mentions of MentionLen letters, and the first and the last of
\* them in capitals between spaces.
MentionPool ==
    {<<>>, <<" ">>}
    \cup {Letters(MentionLen, k) : k \in 0..MentionLen}
    \cup {<<" ">> \o upper(Letters(MentionLen, k)) \o <<" ">> : k \in {0, MentionLen}}

\* _deduplicate passes threshold=2 (entity_diff_calculator.py:42).
LegacyThreshold == 2

DedupInit ==
    /\ entities \in SeqsUpTo(MentionPool, MaxMentions)
    /\ threshold \in {NoThreshold, Threshold(LegacyThreshold)}
    /\ unique_entities = None /\ unique_again = None /\ dedup_pc = "call"
    /\ StrIdle /\ DiffIdle /\ CompIdle /\ ChunkIdle /\ SegIdle /\ TpIdle /\ NatIdle
    /\ LoadIdle /\ FileIdle

CallDeduplicate ==
    /\ dedup_pc = "call"
    /\ unique_entities' = deduplicate_entities(entities, threshold)
    /\ dedup_pc' = "again"
    /\ UNCHANGED <<entities, threshold, unique_again>>
    /\ UNCHANGED <<strVars, diffVars, compVars, chunkVars, segVars, tpVars, natVars,
                   loadVars, fileVars>>

CallDeduplicateAgain ==
    /\ dedup_pc = "again"
    /\ unique_again' = deduplicate_entities(unique_entities, threshold)
    /\ dedup_pc' = "done"
    /\ UNCHANGED <<entities, threshold, unique_entities>>
    /\ UNCHANGED <<strVars, diffVars, compVars, chunkVars, segVars, tpVars, natVars,
                   loadVars, fileVars>>

DedupNext == CallDeduplicate \/ CallDeduplicateAgain

SpecDedup == DedupInit /\ [][DedupNext]_vars

\* The similarity test of a call: the relative threshold by default, the
\* absolute one when a threshold is given; on canonical forms.
SimilarFor(thr, x, y) ==
    LET cx == Canonical(x)
        cy == Canonical(y)
        limit == IF thr = NoThreshold THEN Max(3, FloorFifth(Max(Len(cx), Len(cy))))
                 ELSE thr[1]
    IN cx = cy \/ levenshtein_distance(cx, cy) <= limit

\* C2: deduplicate_entities is idempotent, with the default relative threshold
\* and with the legacy absolute threshold.
C2_DedupIdempotent ==
    dedup_pc = "done" => unique_again = unique_entities

\* Duplicates were dropped and a mention was trimmed in the first pass.
C2_Witness ==
    /\ dedup_pc = "done"
    /\ threshold # NoThreshold
    /\ entities = << <<" ">> \o upper(Letters(MentionLen, 0)) \o <<" ">>,
                     Letters(MentionLen, 2),
                     Letters(MentionLen, MentionLen) >>
    /\ unique_entities = <<upper(Letters(MentionLen, 0)), Letters(MentionLen, MentionLen)>>
    /\ unique_again = unique_entities

\* C3: the output of deduplicate_entities holds no two distinct positions whose
\* elements are similar under the similarity test of that call, in either order.
C3_DedupOutputPairwiseDissimilar ==
    dedup_pc \in {"again", "done"} =>
        \A i, j \in 1..Len(unique_entities) :
            i # j => ~SimilarFor(threshold, unique_entities[i], unique_entities[j])

\* Three mutually dissimilar representatives survive.
C3_Witness ==
    /\ dedup_pc = "again"
    /\ threshold # NoThreshold
    /\ Len(entities) = 3
    /\ Len(unique_entities) = 3

\* The mentions of ents at the indices K, trimmed, in input order.
RECURSIVE PickTrimmed(_, _, _)
PickTrimmed(ents, K, i) ==
    IF i > Len(ents) THEN <<>>
    ELSE (IF i \in K THEN <<Trimmed(ents[i])>> ELSE <<>>) \o PickTrimmed(ents, K, i + 1)

\* K holds exactly the indices whose mention is similar to no earlier kept one.
FirstSeenIndices(ents, thr, K) ==
    \A i \in 1..Len(ents) :
        i \in K <=> \A j \in K : j < i => ~SimilarFor(thr, ents[i], Trimmed(ents[j]))

\* C4: the output is the subsequence of the trimmed, not case-folded inputs that
\* are similar to no earlier accepted representative, in order of first
\* occurrence (the first-seen spelling wins).
C4_DedupFirstSeenWins ==
    dedup_pc \in {"again", "done"} =>
        \E K \in SUBSET (1..Len(entities)) :
            /\ FirstSeenIndices(entities, threshold, K)
            /\ unique_entities = PickTrimmed(entities, K, 1)

\* " AAAA " is seen first and wins over "aaaa"; its capitals are kept.
C4_Witness ==
    /\ dedup_pc = "again"
    /\ Len(entities) = 3
    /\ entities[1] = <<" ">> \o upper(Letters(MentionLen, 0)) \o <<" ">>
    /\ entities[2] = Letters(MentionLen, MentionLen)
    /\ entities[3] = Letters(MentionLen, 0)
    /\ threshold = NoThreshold
    /\ unique_entities = <<upper(Letters(MentionLen, 0)), Letters(MentionLen, MentionLen)>>

(***************************************************************************)
(* EntityDiffCalculator (entity_diff_calculator.py)                        *)
(***************************************************************************)
\* As _deduplicate, but without threshold=2: the default relative threshold.
_deduplicate_default(ents) == deduplicate_entities(ents, NoThreshold)

_deduplicate(ents) == deduplicate_entities(ents, Threshold(LegacyThreshold))

\* The literal of "levenshtein_distance(...) <= 2" in _is_similar_to_any.
CrossListThreshold == 2

\* As _is_similar_to_any, but without casefold().
_is_similar_to_any_case_sensitive(entity, entity_list) ==
    LET entity_normalized == strip(entity)
    IN \E k \in 1..Len(entity_list) :
           LET other_normalized == strip(entity_list[k])
           IN \/ entity_normalized = other_normalized
              \/ levenshtein_distance(entity_normalized, other_normalized)
                     <= CrossListThreshold

\* As _is_similar_to_any, but returning False from inside the loop: only the
\* first element of the list is compared.
_is_similar_to_any_first_only(entity, entity_list) ==
    LET entity_normalized == casefold(strip(entity))
    IN \E k \in 1..Min(1, Len(entity_list)) :
           LET other_normalized == casefold(strip(entity_list[k]))
           IN \/ entity_normalized = other_normalized
              \/ levenshtein_distance(entity_normalized, other_normalized)
                     <= CrossListThreshold

\* As _is_similar_to_any, but with "< 2" for "<= 2".
_is_similar_to_any_below_threshold(entity, entity_list) ==
    LET entity_normalized == casefold(strip(entity))
    IN \E k \in 1..Len(entity_list) :
           LET other_normalized == casefold(strip(entity_list[k]))
           IN \/ entity_normalized = other_normalized
              \/ levenshtein_distance(entity_normalized, other_normalized)
                     < CrossListThreshold

_is_similar_to_any(entity, entity_list) ==
    LET entity_normalized == casefold(strip(entity))
    IN \E k \in 1..Len(entity_list) :
           LET other_normalized == casefold(strip(entity_list[k]))
           IN \/ entity_normalized = other_normalized
              \/ levenshtein_distance(entity_normalized, other_normalized)
                     <= CrossListThreshold

calculate(req, resp) ==
    LET unique_request == _deduplicate(req)
        unique_response == _deduplicate(resp)
    IN [potential_hallucinations |->
            SelectSeq(unique_response,
                      LAMBDA entity : ~_is_similar_to_any(entity, unique_request)),
        missing_entities |->
            SelectSeq(unique_request,
                      LAMBDA entity : ~_is_similar_to_any(entity, unique_response))]

\* Mentions at 0, 2, 3 and MentionLen edits from the first, one of them also
\* in capitals between spaces.
DiffPool ==
    {Letters(MentionLen, 0), Letters(MentionLen, 2), Letters(MentionLen, 3),
     Letters(MentionLen, MentionLen),
     <<" ">> \o upper(Letters(MentionLen, 2)) \o <<" ">>}

DiffInit ==
    /\ request_entities \in SeqsUpTo(DiffPool, MaxDiffMentions)
    /\ response_entities \in SeqsUpTo(DiffPool, MaxDiffMentions)
    /\ diff_result = None /\ diff_pc = "call"
    /\ StrIdle /\ DedupIdle /\ CompIdle /\ ChunkIdle /\ SegIdle /\ TpIdle /\ NatIdle
    /\ LoadIdle /\ FileIdle

CallCalculate ==
    /\ diff_pc = "call"
    /\ diff_result' = calculate(request_entities, response_entities)
    /\ diff_pc' = "done"
    /\ UNCHANGED <<request_entities, response_entities>>
    /\ UNCHANGED <<strVars, dedupVars, compVars, chunkVars, segVars, tpVars, natVars,
                   loadVars, fileVars>>

DiffNext == CallCalculate

SpecDiff == DiffInit /\ [][DiffNext]_vars

\* Contract C stated directly: the trimmed mentions at the first-seen indices.
FirstSeen(ents, thr) ==
    PickTrimmed(ents,
                CHOOSE K \in SUBSET (1..Len(ents)) : FirstSeenIndices(ents, thr, K), 1)

\* The elements of xs, in order, similar under thr to no element of ys.
NotSimilarToAny(xs, ys, thr) ==
    SelectSeq(xs, LAMBDA x : \A k \in 1..Len(ys) : ~SimilarFor(thr, x, ys[k]))

\* The diff of two lists when deduplication and matching both use thr.
DiffUnder(req, resp, thr) ==
    LET R == FirstSeen(req, thr)
        P == FirstSeen(resp, thr)
    IN [potential_hallucinations |-> NotSimilarToAny(P, R, thr),
        missing_entities |-> NotSimilarToAny(R, P, thr)]

\* C7 as stated: calculate deduplicates with Contract C and matches with
\* Contract B, both under the relative threshold max(3, floor(0.2 * max len)).
C7_DiffUsesRelativeThreshold ==
    diff_pc = "done" =>
        diff_result = DiffUnder(request_entities, response_entities, NoThreshold)

\* C7 amended: calculate deduplicates each list and matches across the lists
\* with the absolute threshold 2 on trimmed, case-folded strings:
\* potential_hallucinations are the elements of P, in order, farther than 2 edits
\* from every element of R, and missing_entities the elements of R, in order,
\* farther than 2 edits from every element of P.
C7_DiffUsesAbsoluteThreshold ==
    diff_pc = "done" =>
        diff_result = DiffUnder(request_entities, response_entities, Threshold(2))

\* Two mentions 3 edits apart are reported on both sides: within the relative
\* threshold, beyond the absolute one.
C7_Witness ==
    /\ diff_pc = "done"
    /\ request_entities = <<Letters(MentionLen, 0)>>
    /\ response_entities = <<Letters(MentionLen, 3), Letters(MentionLen, 2)>>
    /\ diff_result.potential_hallucinations = <<Letters(MentionLen, 3)>>
    /\ diff_result.missing_entities = <<Letters(MentionLen, 0)>>

Elements(xs) == {xs[k] : k \in 1..Len(xs)}

\* C8: no element of potential_hallucinations equals, or is similar by the
\* calculator's own test to, an element of missing_entities.
C8_NoCrossListing ==
    diff_pc = "done" =>
        \A h \in Elements(diff_result.potential_hallucinations) :
            \A m \in Elements(diff_result.missing_entities) :
                h # m /\ ~SimilarFor(Threshold(2), h, m) /\ ~SimilarFor(Threshold(2), m, h)

\* Both output lists are non-empty.
C8_Witness ==
    /\ diff_pc = "done"
    /\ Len(request_entities) = 2 /\ Len(response_entities) = 2
    /\ Len(diff_result.potential_hallucinations) >= 1
    /\ Len(diff_result.missing_entities) >= 1

\* C9: a mention occurring in both lists, verbatim or up to case and surrounding
\* whitespace, is listed in neither output, whatever else the lists contain.
C9_CommonMentionInNeitherList ==
    diff_pc = "done" =>
        \A x \in Elements(request_entities) :
            \A y \in Elements(response_entities) :
                Canonical(x) = Canonical(y) =>
                    \A e \in Elements(diff_result.potential_hallucinations)
                               \cup Elements(diff_result.missing_entities) :
                        Canonical(e) # Canonical(x)

\* The common mention was absorbed on each side by a different representative,
\* and those two are reported.
C9_Witness ==
    /\ diff_pc = "done"
    /\ request_entities = <<Letters(MentionLen, 0), Letters(MentionLen, 2)>>
    /\ response_entities = <<Letters(MentionLen, MentionLen),
                             <<" ">> \o upper(Letters(MentionLen, 2)) \o <<" ">> >>
    /\ diff_result.potential_hallucinations = <<Letters(MentionLen, MentionLen)>>
    /\ diff_result.missing_entities = <<Letters(MentionLen, 0)>>

(***************************************************************************)
(* CompositeEntityExtractor (composite_entity_extractor.py)                *)
(*                                                                         *)
(* A backend either raises on every call or returns a fixed list.  calls   *)
(* records every backend invocation with its arguments.                    *)
(***************************************************************************)
CompPool ==
    {Letters(MentionLen, 0), Letters(MentionLen, MentionLen),
     <<" ">> \o upper(Letters(MentionLen, 0)) \o <<" ">>}

Backends ==
    {[raises |-> TRUE, returns |-> <<>>]}
    \cup {[raises |-> FALSE, returns |-> r] : r \in SeqsUpTo(CompPool, MaxBackendOut)}

\* The arguments of a call: text, and entity_types, each empty or not.
CompTexts == {<<>>, <<"a">>}
CompEntityTypes == {<<>>, <<"PERSON">>}

\* __init__ rejects an empty sequence of extractors.
CompInit ==
    /\ extractors \in SeqsUpTo(Backends, MaxExtractors) \ {<<>>}
    /\ \E p \in CompTexts \X CompEntityTypes :
           comp_text = p[1] /\ entity_types = p[2]
    /\ ext_idx = 0 /\ all_entities = <<>> /\ calls = <<>>
    /\ comp_result = None /\ comp_raised = FALSE /\ comp_pc = "call"
    /\ StrIdle /\ DedupIdle /\ DiffIdle /\ ChunkIdle /\ SegIdle /\ TpIdle /\ NatIdle
    /\ LoadIdle /\ FileIdle

nothing_to_extract_without_text(txt, types) == txt = <<>>

\* if not text or not entity_types
nothing_to_extract(txt, types) == txt = <<>> \/ types = <<>>

extract_call_without_types(idx, txt, types) ==
    [extractor |-> idx, text |-> txt, entity_types |-> <<>>]

\* extractor.extract(text, entity_types), as the backend idx receives it
extract_call(idx, txt, types) ==
    [extractor |-> idx, text |-> txt, entity_types |-> types]

extend_in_front(collected, returned) == returned \o collected

\* all_entities.extend(entities)
extend(collected, returned) == collected \o returned

\* As try_extractor, but an error raised while nothing has been collected yet
\* is raised again.
try_extractor_reraising_when_empty(extractor, collected) ==
    IF extractor.raises
    THEN [propagates |-> collected = <<>>, all_entities |-> collected]
    ELSE [propagates |-> FALSE, all_entities |-> collected \o extractor.returns]

\* As try_extractor, but without the try/except: the error propagates.
try_extractor_uncaught(extractor, collected) ==
    IF extractor.raises
    THEN [propagates |-> TRUE, all_entities |-> collected]
    ELSE [propagates |-> FALSE, all_entities |-> collected \o extractor.returns]

\* One iteration of the loop: the call inside try, "continue" on Exception,
\* all_entities.extend(entities) otherwise.
try_extractor(extractor, collected) ==
    IF extractor.raises
    THEN [propagates |-> FALSE, all_entities |-> collected]
    ELSE [propagates |-> FALSE, all_entities |-> extend(collected, extractor.returns)]

\* extract up to the loop: the early return, or all_entities = [].
ExtractBegin ==
    /\ comp_pc = "call"
    /\ IF nothing_to_extract(comp_text, entity_types)
       THEN /\ comp_result' = <<>>
            /\ comp_pc' = "done"
            /\ UNCHANGED <<ext_idx, all_entities>>
       ELSE /\ all_entities' = <<>>
            /\ ext_idx' = 1
            /\ comp_pc' = "loop"
            /\ UNCHANGED comp_result
    /\ UNCHANGED <<extractors, comp_text, entity_types, calls, comp_raised>>
    /\ UNCHANGED <<strVars, dedupVars, diffVars, chunkVars, segVars, tpVars, natVars,
                   loadVars, fileVars>>

\* One backend invocation; after the last one, the deduplicated return.
InvokeExtractor ==
    /\ comp_pc = "loop"
    /\ ext_idx <= Len(extractors)
    /\ LET outcome == try_extractor(extractors[ext_idx], all_entities)
       IN /\ calls' = Append(calls, extract_call(ext_idx, comp_text, entity_types))
          /\ all_entities' = outcome.all_entities
          /\ IF outcome.propagates
             THEN /\ comp_raised' = TRUE
                  /\ comp_pc' = "done"
                  /\ UNCHANGED <<ext_idx, comp_result>>
             ELSE /\ comp_raised' = FALSE
                  /\ ext_idx' = ext_idx + 1
                  /\ IF ext_idx = Len(extractors)
                     THEN /\ comp_result' =
                                 deduplicate_entities(outcome.all_entities, NoThreshold)
                          /\ comp_pc' = "done"
                     ELSE UNCHANGED <<comp_result, comp_pc>>
    /\ UNCHANGED <<extractors, comp_text, entity_types>>
    /\ UNCHANGED <<strVars, dedupVars, diffVars, chunkVars, segVars, tpVars, natVars,
                   loadVars, fileVars>>

CompNext == ExtractBegin \/ InvokeExtractor

SpecComp == CompInit /\ [][CompNext]_vars

\* The returned lists of the backends that do not raise, in registration order.
RECURSIVE HealthyOutputs(_)
HealthyOutputs(exts) ==
    IF exts = <<>> THEN <<>>
    ELSE (IF Head(exts).raises THEN <<>> ELSE Head(exts).returns)
             \o HealthyOutputs(Tail(exts))

\* C1: for non-empty text and entity types, extract does not raise when backends
\* raise; every backend that does not raise is still invoked, and the result is
\* the deduplication of exactly the non-raising backends' outputs, concatenated
\* in registration order.
C1_CompositeIsolatesFailures ==
    comp_pc = "done" /\ comp_text # <<>> /\ entity_types # <<>> =>
        /\ ~comp_raised
        /\ \A k \in 1..Len(extractors) :
               ~extractors[k].raises => \E c \in 1..Len(calls) : calls[c].extractor = k
        /\ comp_result = FirstSeen(HealthyOutputs(extractors), NoThreshold)

\* The first backend raises, the second returns two mentions of which the
\* composite keeps both.
C1_Witness ==
    /\ comp_pc = "done" /\ ~comp_raised
    /\ Len(extractors) = 2
    /\ extractors[1].raises
    /\ ~extractors[2].raises
    /\ extractors[2].returns = <<Letters(MentionLen, MentionLen),
                                 <<" ">> \o upper(Letters(MentionLen, 0)) \o <<" ">> >>
    /\ Len(calls) = 2
    /\ comp_result = <<Letters(MentionLen, MentionLen), upper(Letters(MentionLen, 0))>>

\* C18: for non-empty text and entity types, extract invokes every configured
\* backend exactly once, in registration order, each with the text and the
\* entity types extract was given; the k-th invocation of the call is backend
\* k's, made when the k - 1 backends before it have returned or raised.
C18_EveryBackendOnceInOrder ==
    comp_text # <<>> /\ entity_types # <<>> =>
        /\ \A k \in 1..Len(calls) :
               /\ calls[k].extractor = k
               /\ calls[k].text = comp_text
               /\ calls[k].entity_types = entity_types
        /\ comp_pc = "loop" => Len(calls) = ext_idx - 1
        /\ comp_pc = "done" => Len(calls) = Len(extractors)

\* Two backends, the first of which raises: the second is still invoked, last.
C18_Witness ==
    /\ comp_pc = "done"
    /\ comp_text # <<>> /\ entity_types # <<>>
    /\ Len(extractors) = 2
    /\ extractors[1].raises /\ extractors[2].returns # <<>>
    /\ Len(calls) = 2
    /\ calls[2] = [extractor |-> 2, text |-> comp_text, entity_types |-> entity_types]

\* C19: with an empty text or no entity types, extract returns the empty
\* sequence and invokes no backend.
C19_EmptyInputCallsNoBackend ==
    comp_pc = "done" /\ (comp_text = <<>> \/ entity_types = <<>>) =>
        comp_result = <<>> /\ calls = <<>> /\ ~comp_raised

\* A text but no entity types, with a backend that would have returned a mention.
C19_Witness ==
    /\ comp_pc = "done"
    /\ comp_text # <<>> /\ entity_types = <<>>
    /\ extractors[1].returns # <<>>
    /\ calls = <<>> /\ comp_result = <<>>

\* What the backends return, concatenated in registration order (a backend that
\* raises returns nothing).
RECURSIVE Concatenated(_)
Concatenated(exts) ==
    IF exts = <<>> THEN <<>> ELSE Head(exts).returns \o Concatenated(Tail(exts))

ChunkAlphabet == {"a", "b"}

_validate_parameters_ignoring_negative_overlap(size, overlap) ==
    size <= 0 \/ overlap >= size

\* _validate_parameters: does it raise ValueError?
_validate_parameters(size, overlap) ==
    size <= 0 \/ overlap < 0 \/ overlap >= size

stride_ignoring_overlap(size, overlap) == size

stride_off_by_one(size, overlap) == size - overlap + 1

stride_always_one(size, overlap) == 1

\* stride = chunk_size - chunk_overlap
stride(size, overlap) == size - overlap

\* text[position:end_position], both 0-based
Slice(str, from, to) == SubSeq(str, from + 1, to)

FileChunk(id, chunk_text) ==
    [id |-> id, text |-> chunk_text, entities |-> <<>>, embedding |-> None]

next_chunk_id_unchanged(id) == id

\* chunk_id += 1
next_chunk_id(id) == id + 1

ChunkInit ==
    /\ text \in SeqsUpTo(ChunkAlphabet, MaxTextLen)
    /\ chunk_size \in -1..MaxChunkSize
    /\ chunk_overlap \in -1..MaxChunkSize
    /\ start_id \in {0, 7}
    /\ position = 0 /\ chunk_id = 0 /\ chunks = <<>>
    /\ chunk_error = FALSE /\ chunk_pc = "call"
    /\ StrIdle /\ DedupIdle /\ DiffIdle /\ CompIdle /\ SegIdle /\ TpIdle /\ NatIdle
    /\ LoadIdle /\ FileIdle

\* split_text up to the loop: validation, the empty text, the locals.
SplitTextBegin ==
    /\ chunk_pc = "call"
    /\ IF _validate_parameters(chunk_size, chunk_overlap)
       THEN /\ chunk_error' = TRUE
            /\ chunk_pc' = "done"
            /\ UNCHANGED <<position, chunk_id, chunks>>
       ELSE IF text = <<>>
       THEN /\ chunks' = <<>>
            /\ chunk_pc' = "done"
            /\ UNCHANGED <<position, chunk_id, chunk_error>>
       ELSE /\ chunks' = <<>>
            /\ position' = 0
            /\ chunk_id' = start_id
            /\ chunk_pc' = "loop"
            /\ UNCHANGED chunk_error
    /\ UNCHANGED <<text, chunk_size, chunk_overlap, start_id>>
    /\ UNCHANGED <<strVars, dedupVars, diffVars, compVars, segVars, tpVars, natVars,
                   loadVars, fileVars>>

\* One iteration of "while True", with the return when it breaks.
SplitTextIterate ==
    /\ chunk_pc = "loop"
    /\ IF position >= Len(text)
       THEN /\ chunk_pc' = "done"
            /\ UNCHANGED <<position, chunk_id, chunks>>
       ELSE LET end_position == Min(position + chunk_size, Len(text))
                chunk_text == Slice(text, position, end_position)
            IN /\ IF chunk_text # <<>>
                  THEN /\ chunks' = Append(chunks, FileChunk(chunk_id, chunk_text))
                       /\ chunk_id' = next_chunk_id(chunk_id)
                  ELSE UNCHANGED <<chunks, chunk_id>>
               /\ position' = position + stride(chunk_size, chunk_overlap)
               /\ chunk_pc' = IF position' >= Len(text) THEN "done" ELSE "loop"
    /\ UNCHANGED <<text, chunk_size, chunk_overlap, start_id, chunk_error>>
    /\ UNCHANGED <<strVars, dedupVars, diffVars, compVars, segVars, tpVars, natVars,
                   loadVars, fileVars>>

ChunkNext == SplitTextBegin \/ SplitTextIterate

SpecChunk == ChunkInit /\ [][ChunkNext]_vars

\* str without its first n characters (all of it when it is shorter).
DropFirst(str, n) == SubSeq(str, n + 1, Len(str))

\* The first chunk's text followed by every later chunk's text without its
\* first overlap characters.
RECURSIVE Reconstructed(_, _, _)
Reconstructed(cs, overlap, k) ==
    IF k > Len(cs) THEN <<>>
    ELSE (IF k = 1 THEN cs[k].text ELSE DropFirst(cs[k].text, overlap))
             \o Reconstructed(cs, overlap, k + 1)

\* C10: for every text and valid (chunk_size, chunk_overlap), the first chunk
\* followed by every later chunk without its first chunk_overlap characters is
\* the original text.
C10_ChunkReconstruction ==
    chunk_pc = "done" /\ ~chunk_error =>
        Reconstructed(chunks, chunk_overlap, 1) = text

\* Overlapping chunks, the last of them shorter than the overlap plus one.
C10_Witness ==
    /\ chunk_pc = "done" /\ ~chunk_error
    /\ text = <<"a", "b", "b", "a", "b">>
    /\ chunk_size = 3 /\ chunk_overlap = 2
    /\ Len(chunks) = 5
    /\ chunks[2].text = <<"b", "b", "a">>
    /\ chunks[5].text = <<"b">>

\* C11: the i-th chunk (0-based) has id start_id + i, and every chunk's text is
\* non-empty and no longer than chunk_size.
C11_ChunkIdsAndSizes ==
    chunk_pc \in {"loop", "done"} /\ ~chunk_error =>
        \A i \in 1..Len(chunks) :
            /\ chunks[i].id = start_id + (i - 1)
            /\ chunks[i].text # <<>>
            /\ Len(chunks[i].text) <= chunk_size

\* Three chunks numbered from 7, the last one shorter than chunk_size.
C11_Witness ==
    /\ chunk_pc = "done" /\ ~chunk_error
    /\ start_id = 7 /\ chunk_size = 3 /\ chunk_overlap = 1
    /\ Len(text) = 5
    /\ Len(chunks) = 3
    /\ chunks[3].id = 9 /\ Len(chunks[3].text) = 1

\* The last n characters of str (all of it when it is shorter).
LastChars(str, n) == SubSeq(str, Max(Len(str) - n, 0) + 1, Len(str))

\* The first n characters of str (all of it when it is shorter).
FirstChars(str, n) == SubSeq(str, 1, Min(n, Len(str)))

\* C12: of two consecutive chunks that both have length chunk_size, the last
\* chunk_overlap characters of the first are the first chunk_overlap characters
\* of the second, and the second starts chunk_size - chunk_overlap characters
\* after the first: chunk i (0-based) is the text from i * (chunk_size -
\* chunk_overlap) on, and the loop's position after i chunks is that offset.
C12_OverlapCorrectness ==
    chunk_pc \in {"loop", "done"} /\ ~chunk_error /\ text # <<>> =>
        /\ position = Len(chunks) * (chunk_size - chunk_overlap)
        /\ \A i \in 1..(Len(chunks) - 1) :
               Len(chunks[i].text) = chunk_size /\ Len(chunks[i + 1].text) = chunk_size =>
                   LET first_start == (i - 1) * (chunk_size - chunk_overlap)
                       second_start == first_start + (chunk_size - chunk_overlap)
                   IN /\ LastChars(chunks[i].text, chunk_overlap)
                             = FirstChars(chunks[i + 1].text, chunk_overlap)
                      /\ chunks[i].text
                             = SubSeq(text, first_start + 1, first_start + chunk_size)
                      /\ chunks[i + 1].text
                             = SubSeq(text, second_start + 1, second_start + chunk_size)

\* Two full chunks sharing two characters, then shorter ones.
C12_Witness ==
    /\ chunk_pc = "done" /\ ~chunk_error
    /\ text = <<"a", "a", "b", "a", "b", "b">>
    /\ chunk_size = 4 /\ chunk_overlap = 2
    /\ Len(chunks) = 3
    /\ chunks[1].text = <<"a", "a", "b", "a">>
    /\ chunks[2].text = <<"b", "a", "b", "b">>

\* chunk_size and chunk_overlap as split_text accepts them
ValidChunking(size, overlap) == size >= 1 /\ 0 <= overlap /\ overlap < size

\* C13: invalid parameters (chunk_size <= 0, chunk_overlap < 0 or chunk_overlap
\* >= chunk_size) end the call with a validation error and no chunk, for every
\* text, the empty one included; valid parameters raise no error, and with
\* the empty text they give the empty list.
C13_ValidationComesFirst ==
    chunk_pc # "call" =>
        /\ chunk_error <=> ~ValidChunking(chunk_size, chunk_overlap)
        /\ chunk_error => chunk_pc = "done" /\ chunks = <<>>
        /\ ~chunk_error /\ text = <<>> => chunk_pc = "done" /\ chunks = <<>>

\* The empty text with an overlap equal to the chunk size: the error wins.
C13_Witness ==
    /\ chunk_pc = "done" /\ chunk_error
    /\ text = <<>>
    /\ chunk_size = 2 /\ chunk_overlap = 2

\* C14: a non-empty text shorter than chunk_size gives, for every valid
\* chunk_overlap, exactly one chunk, whose text is the whole text.
C14_ShortTextIsOneChunk ==
    chunk_pc = "done" /\ ~chunk_error /\ text # <<>> /\ Len(text) < chunk_size =>
        Len(chunks) = 1 /\ chunks[1].text = text

(***************************************************************************)
(* GlinerEntityExtractor._split_for_model (gliner_entity_extractor.py)     *)
(***************************************************************************)
SegAlphabet == {"a", ".", " ", "\n"}

\* boundary_chars = ".!?;:\n"
boundary_chars == {".", "!", "?", ";", ":", "\n"}

\* max(start + min_chars, tentative_end - 300)
BoundarySearchWindow == 300

\* re.sub(r"\s+", " ", text): every run of whitespace becomes one " "
RECURSIVE collapse_whitespace(_)
collapse_whitespace(str) ==
    IF str = <<>> THEN <<>>
    ELSE IF IsSpace(Head(str))
    THEN IF Len(str) >= 2 /\ IsSpace(str[2])
         THEN collapse_whitespace(Tail(str))
         ELSE <<" ">> \o collapse_whitespace(Tail(str))
    ELSE <<Head(str)>> \o collapse_whitespace(Tail(str))

\* str[i] of Python raises IndexError outside -len(str) .. len(str) - 1
py_index_ok(str, i) == -Len(str) <= i /\ i < Len(str)

\* str[i] of Python, i 0-based, a negative i counted from the end
py_index(str, i) == IF i >= 0 THEN str[i + 1] ELSE str[Len(str) + i + 1]

\* a slice bound of Python: negative counted from the end, clipped to 0 .. len(str)
py_bound(str, i) == IF i < 0 THEN Max(Len(str) + i, 0) ELSE Min(i, Len(str))

\* str[from:to] of Python
py_slice(str, from, to) == SubSeq(str, py_bound(str, from) + 1, py_bound(str, to))

tentative_end_one_more(from, limit, text_len) == Min(from + limit + 1, text_len)

\* tentative_end = min(start + max_chars, text_len)
tentative_end(from, limit, text_len) == Min(from + limit, text_len)

\* The for loop over range(tentative_end, search_from, -1): the first idx, going
\* down, whose character normalized[idx - 1] is a boundary character (split_pos
\* stays -1 when there is none), or IndexError when idx - 1 is out of range.
boundary_scan(str, scan_from, search_from) ==
    LET stops == {idx \in (search_from + 1)..scan_from :
                      \/ ~py_index_ok(str, idx - 1)
                      \/ py_index(str, idx - 1) \in boundary_chars}
    IN IF stops = {} THEN [raises |-> FALSE, split_pos |-> -1]
       ELSE LET idx == CHOOSE h \in stops : \A g \in stops : g <= h
            IN IF py_index_ok(str, idx - 1)
               THEN [raises |-> FALSE, split_pos |-> idx]
               ELSE [raises |-> TRUE, split_pos |-> -1]

SegInit ==
    /\ seg_text \in SeqsUpTo(SegAlphabet, MaxSegTextLen)
    /\ max_chars \in -1..MaxSegmentChars
    /\ min_chars \in -2..MaxMinSegmentChars
    /\ normalized = <<>> /\ start = 0 /\ segments = <<>>
    /\ iterations = 0 /\ seg_pc = "call"
    /\ StrIdle /\ DedupIdle /\ DiffIdle /\ CompIdle /\ ChunkIdle /\ TpIdle
    /\ NatIdle /\ LoadIdle /\ FileIdle

\* _split_for_model up to the loop: normalisation and the two early returns.
SplitForModelBegin ==
    /\ seg_pc = "call"
    /\ normalized' = strip(collapse_whitespace(seg_text))
    /\ IF normalized' = <<>>
       THEN segments' = <<>> /\ seg_pc' = "done"
       ELSE IF Len(normalized') <= max_chars
       THEN segments' = <<normalized'>> /\ seg_pc' = "done"
       ELSE segments' = <<>> /\ seg_pc' = "loop"
    /\ start' = 0
    /\ UNCHANGED <<seg_text, max_chars, min_chars, iterations>>
    /\ UNCHANGED <<strVars, dedupVars, diffVars, compVars, chunkVars, tpVars,
                   natVars, loadVars, fileVars>>

\* One iteration of "while start < text_len", with the return when it ends.
SplitForModelIterate ==
    /\ seg_pc = "loop"
    /\ iterations < MaxIterations
    /\ iterations' = iterations + 1
    /\ LET text_len == Len(normalized)
           window_end == tentative_end(start, max_chars, text_len)
       IN IF window_end = text_len
          THEN /\ segments' = Append(segments, strip(py_slice(normalized, start, window_end)))
               /\ seg_pc' = "done"
               /\ UNCHANGED start
          ELSE LET search_from == Max(start + min_chars, window_end - BoundarySearchWindow)
                   scan == boundary_scan(normalized, window_end, search_from)
                   split_pos == IF scan.split_pos = -1 THEN window_end ELSE scan.split_pos
                   segment == strip(py_slice(normalized, start, split_pos))
               IN IF scan.raises
                  THEN seg_pc' = "raised" /\ UNCHANGED <<segments, start>>
                  ELSE /\ segments' = IF segment # <<>> THEN Append(segments, segment)
                                      ELSE segments
                       /\ start' = split_pos
                       /\ seg_pc' = IF start' < text_len THEN "loop" ELSE "done"
    /\ UNCHANGED <<seg_text, max_chars, min_chars, normalized>>
    /\ UNCHANGED <<strVars, dedupVars, diffVars, compVars, chunkVars, tpVars,
                   natVars, loadVars, fileVars>>

SegNext == SplitForModelBegin \/ SplitForModelIterate

SpecSeg == SegInit /\ [][SegNext]_vars

\* C15: every segment _split_for_model returns is non-empty and at most
\* max_segment_chars long, for every text and every configuration.
C15_SegmentsNonEmptyAndBounded ==
    seg_pc = "done" =>
        \A i \in 1..Len(segments) :
            segments[i] # <<>> /\ Len(segments[i]) <= max_chars

\* A cut after a sentence end, then the rest of the text as the last segment.
C15_Witness ==
    /\ seg_pc = "done"
    /\ seg_text = <<"a", ".", "a", "a", "a">>
    /\ max_chars = 3 /\ min_chars = 1
    /\ segments = << <<"a", ".">>, <<"a", "a", "a">> >>

\* C16: whatever the text and the configured (max_segment_chars,
\* min_segment_chars), every iteration of the loop of _split_for_model that is
\* followed by another one has moved start forward.
C16_LoopMovesForward ==
    [][seg_pc = "loop" /\ seg_pc' = "loop" => start' > start]_vars

\* a text without any character other than whitespace
Blank(str) == \A i \in 1..Len(str) : str[i] \in {" ", "\n"}

\* C17 as claimed: every text of length >= 1, a text of whitespace only
\* included, gives at least one segment.
C17_NonEmptyTextGivesSegment ==
    seg_pc = "done" /\ seg_text # <<>> => Len(segments) >= 1

\* C17: _split_for_model returns at least one segment exactly for the texts
\* that hold a character other than whitespace; for a text of whitespace only
\* (and for the empty text) it returns no segment.
C17_NonBlankTextGivesSegment ==
    seg_pc = "done" => (Len(segments) >= 1 <=> ~Blank(seg_text))

\* Whitespace around and between two letters, cut into one segment per letter.
C17_Witness ==
    /\ seg_pc = "done"
    /\ seg_text = <<" ", "a", "\n", "\n", "a">>
    /\ max_chars = 2 /\ min_chars = 0
    /\ segments = << <<"a">>, <<"a">> >>

(***************************************************************************)
(* CompositeEntityExtractor.extract when every backend raises              *)
(***************************************************************************)
AllBackendsRaise == \A k \in 1..Len(extractors) : extractors[k].raises

\* C21 as claimed: when every configured backend raises, extract surfaces an
\* error to its caller.
C21_TotalFailureRaises ==
    comp_pc = "done" /\ comp_text # <<>> /\ entity_types # <<>> /\ AllBackendsRaise =>
        comp_raised

\* C21: when every configured backend raises (a single configured backend
\* included), extract has invoked all of them, raises nothing and returns the
\* empty list.
C21_TotalFailureReturnsEmpty ==
    comp_pc = "done" /\ comp_text # <<>> /\ entity_types # <<>> /\ AllBackendsRaise =>
        ~comp_raised /\ comp_result = <<>> /\ Len(calls) = Len(extractors)

\* Two backends, both raising.
C21_Witness ==
    /\ comp_pc = "done"
    /\ comp_text # <<>> /\ entity_types # <<>>
    /\ Len(extractors) = 2 /\ AllBackendsRaise
    /\ Len(calls) = 2 /\ comp_result = <<>> /\ ~comp_raised

(***************************************************************************)
(* EntityDiffCalculator.calculate: the absolute threshold                  *)
(***************************************************************************)
\* The edit distance of two mentions on their trimmed, case-folded forms.
CanonicalDistance(x, y) == levenshtein_distance(Canonical(x), Canonical(y))

\* The indices of ents that deduplication with the absolute threshold 2 keeps.
KeptUnderTwo(ents) ==
    CHOOSE K \in SUBSET (1..Len(ents)) : FirstSeenIndices(ents, Threshold(2), K)

\* C27: calculate deduplicates each list with the absolute threshold 2 on
\* trimmed, case-folded strings (a mention within distance 2 of an earlier kept
\* mention of its list is collapsed into it before the comparison), and
\* reports a kept mention exactly when it is farther than 2 from every kept
\* mention of the other list.
C27_AbsoluteThresholdTwoEverywhere ==
    diff_pc = "done" =>
        LET KR == KeptUnderTwo(request_entities)
            KP == KeptUnderTwo(response_entities)
            R == PickTrimmed(request_entities, KR, 1)
            P == PickTrimmed(response_entities, KP, 1)
            Far(x, ys) == \A k \in 1..Len(ys) : CanonicalDistance(x, ys[k]) > 2
        IN /\ \A j \in 1..Len(response_entities) :
                  (\E i \in KP : i < j /\ CanonicalDistance(response_entities[j],
                                                            response_entities[i]) <= 2)
                      => j \notin KP
           /\ \A j \in 1..Len(request_entities) :
                  (\E i \in KR : i < j /\ CanonicalDistance(request_entities[j],
                                                            request_entities[i]) <= 2)
                      => j \notin KR
           /\ diff_result.potential_hallucinations = SelectSeq(P, LAMBDA x : Far(x, R))
           /\ diff_result.missing_entities = SelectSeq(R, LAMBDA x : Far(x, P))

\* The second response mention is 2 edits from the first and is collapsed into
\* it; the first is 4 edits from the request's mention: one report on each side.
C27_Witness ==
    /\ diff_pc = "done"
    /\ request_entities = <<Letters(MentionLen, 0)>>
    /\ response_entities = <<Letters(MentionLen, MentionLen), Letters(MentionLen, 2)>>
    /\ diff_result.potential_hallucinations = <<Letters(MentionLen, MentionLen)>>
    /\ diff_result.missing_entities = <<Letters(MentionLen, 0)>>

(***************************************************************************)
(* TextChunker.split_text: the end of the text and termination             *)
(***************************************************************************)
\* Where chunk k (1-based) of the result ends in the text: every iteration
\* emits one chunk, so chunk k starts at (k - 1) * (chunk_size - chunk_overlap).
ChunkEnd(k) == (k - 1) * (chunk_size - chunk_overlap) + Len(chunks[k].text)

\* C28: in every result exactly one chunk, the last one, ends at len(text), so
\* that no chunk lies entirely inside the chunk before it.
C28_OneChunkReachesTheEnd ==
    chunk_pc = "done" /\ ~chunk_error /\ text # <<>> =>
        /\ {k \in 1..Len(chunks) : ChunkEnd(k) = Len(text)} = {Len(chunks)}
        /\ \A k \in 2..Len(chunks) : ChunkEnd(k) > ChunkEnd(k - 1)

\* The code runs split_text to its return: the loop is never left waiting.
SpecChunkFair == SpecChunk /\ WF_vars(ChunkNext)

CeilDiv(a, b) == (a + b - 1) \div b

\* C30: with parameters that pass validation the stride is at least 1, every
\* iteration of the loop moves position forward, the loop is left exactly when
\* position has reached len(text), after at most ceil(len(text) / stride)
\* iterations (one chunk each), and split_text returns.
C30_SplitTextTerminates ==
    /\ [][chunk_pc = "loop" =>
             /\ chunk_size - chunk_overlap >= 1
             /\ position' > position
             /\ (chunk_pc' = "done") = (position' >= Len(text))
             /\ Len(chunks') = Len(chunks) + 1
             /\ Len(chunks') <= CeilDiv(Len(text), chunk_size - chunk_overlap)]_vars
    /\ <>(chunk_pc = "done")

\* Six characters in steps of three: two iterations, the bound itself.
C30_Witness ==
    /\ chunk_pc = "done" /\ ~chunk_error
    /\ Len(text) = 6 /\ chunk_size = 4 /\ chunk_overlap = 1
    /\ position = 6 /\ Len(chunks) = 2

(***************************************************************************)
(* TextProcessingService.process_text (text_processing_service.py)         *)
(*                                                                         *)
(* The two collaborators are any implementation of their interface: the    *)
(* extractor returns a list or raises, the embedding generator returns a   *)
(* list of embeddings (each a vector or None) or raises.  An optional      *)
(* value is <<>> for None and <<v>> for v.                                 *)
(***************************************************************************)
DEFAULT_ENTITY_TYPES ==
    <<"Person", "Organization", "Location", "Event", "Product", "Service",
      "Technology", "Concept", "Time", "Money", "Quantity", "ClassName",
      "Library", "Framework", "Language", "Tool", "Methodology", "Standard",
      "Protocol", "API Endpoint", "Date">>

NoEmbedding == <<>>
Embedding(v) == <<v>>

ServiceAlphabet == {"a", " ", "\n"}

ExtractorOutcomes ==
    {[raises |-> TRUE, returns |-> <<>>],
     [raises |-> FALSE, returns |-> <<>>],
     [raises |-> FALSE, returns |-> << <<"a">> >>]}

GeneratorOutcomes ==
    {[raises |-> TRUE, returns |-> <<>>],
     [raises |-> FALSE, returns |-> <<>>],
     [raises |-> FALSE, returns |-> <<NoEmbedding>>],
     [raises |-> FALSE, returns |-> <<Embedding(<<1>>)>>],
     [raises |-> FALSE, returns |-> <<Embedding(<<1>>), Embedding(<<2>>)>>]}

\* _validate_and_normalize_text: does it raise ValueError?
text_is_rejected_when_empty(txt) == txt = <<>>

text_is_rejected(txt) == txt = <<>> \/ strip(txt) = <<>>

\* list(entity_types) if entity_types else DEFAULT_ENTITY_TYPES
resolve_entity_types(types) == IF types # <<>> THEN types ELSE DEFAULT_ENTITY_TYPES

\* self._entity_extractor.extract(text, entity_types), as the extractor receives it
extractor_call(txt, types) ==
    [collaborator |-> "extractor", text |-> txt, entity_types |-> types]

\* self._embedding_generator.generate_embeddings([text]), as the generator receives it
generator_call(txt) == [collaborator |-> "generator", texts |-> <<txt>>]

TpInit ==
    /\ tp_text \in SeqsUpTo(ServiceAlphabet, MaxServiceTextLen)
    /\ tp_entity_types \in {<<>>, <<"PERSON">>}
    /\ tp_extractor \in ExtractorOutcomes
    /\ tp_generator \in GeneratorOutcomes
    /\ normalized_text = <<>> /\ target_entity_types = <<>> /\ tp_entities = <<>>
    /\ tp_calls = <<>> /\ tp_result = <<>> /\ tp_error = "none" /\ tp_pc = "call"
    /\ StrIdle /\ DedupIdle /\ DiffIdle /\ CompIdle /\ ChunkIdle /\ SegIdle
    /\ NatIdle /\ LoadIdle /\ FileIdle

\* process_text up to the first collaborator: validation, the entity types.
ProcessTextValidate ==
    /\ tp_pc = "call"
    /\ IF text_is_rejected(tp_text)
       THEN /\ tp_error' = "ValueError"
            /\ tp_pc' = "raised"
            /\ UNCHANGED <<normalized_text, target_entity_types>>
       ELSE /\ normalized_text' = strip(tp_text)
            /\ target_entity_types' = resolve_entity_types(tp_entity_types)
            /\ tp_pc' = "extract"
            /\ UNCHANGED tp_error
    /\ UNCHANGED <<tp_text, tp_entity_types, tp_extractor, tp_generator, tp_entities,
                   tp_calls, tp_result>>
    /\ UNCHANGED <<strVars, dedupVars, diffVars, compVars, chunkVars, segVars,
                   natVars, loadVars, fileVars>>

\* entities = self._extract_entities(normalized_text, target_entity_types)
ProcessTextExtract ==
    /\ tp_pc = "extract"
    /\ tp_calls' = Append(tp_calls,
                          extractor_call(normalized_text, target_entity_types))
    /\ IF tp_extractor.raises
       THEN tp_error' = "extractor" /\ tp_pc' = "raised" /\ UNCHANGED tp_entities
       ELSE tp_entities' = tp_extractor.returns /\ tp_pc' = "embed" /\ UNCHANGED tp_error
    /\ UNCHANGED <<tp_text, tp_entity_types, tp_extractor, tp_generator,
                   normalized_text, target_entity_types, tp_result>>
    /\ UNCHANGED <<strVars, dedupVars, diffVars, compVars, chunkVars, segVars,
                   natVars, loadVars, fileVars>>

\* embedding = self._generate_embedding(normalized_text), and the return
ProcessTextEmbed ==
    /\ tp_pc = "embed"
    /\ tp_calls' = Append(tp_calls, generator_call(normalized_text))
    /\ IF tp_generator.raises
       THEN tp_error' = "generator" /\ tp_pc' = "raised" /\ UNCHANGED tp_result
       ELSE LET embeddings == tp_generator.returns
            IN IF embeddings = <<>> \/ embeddings[1] = NoEmbedding
               THEN /\ tp_error' = "EmbeddingGenerationError"
                    /\ tp_pc' = "raised"
                    /\ UNCHANGED tp_result
               ELSE /\ tp_result' = <<[text |-> normalized_text,
                                       entities |-> tp_entities,
                                       embedding |-> embeddings[1][1]]>>
                    /\ tp_pc' = "done"
                    /\ UNCHANGED tp_error
    /\ UNCHANGED <<tp_text, tp_entity_types, tp_extractor, tp_generator,
                   normalized_text, target_entity_types, tp_entities>>
    /\ UNCHANGED <<strVars, dedupVars, diffVars, compVars, chunkVars, segVars,
                   natVars, loadVars, fileVars>>

TpNext == ProcessTextValidate \/ ProcessTextExtract \/ ProcessTextEmbed

SpecTp == TpInit /\ [][TpNext]_vars

\* What the two collaborators are to be called with, in this order.
ExpectedCalls ==
    <<[collaborator |-> "extractor", text |-> Trimmed(tp_text),
       entity_types |-> IF tp_entity_types = <<>> THEN DEFAULT_ENTITY_TYPES
                        ELSE tp_entity_types],
      [collaborator |-> "generator", texts |-> <<Trimmed(tp_text)>>]>>

\* C24 as claimed: an empty or whitespace-only text is rejected with ValueError
\* before any collaborator is called; for every other text the call has, when
\* it ends, called the extractor once and then the embedding generator once,
\* both on the trimmed text, and has returned (trimmed text, entities,
\* embedding).
C24_ProcessTextCallsBothOnce ==
    tp_pc \in {"done", "raised"} =>
        IF Blank(tp_text)
        THEN tp_error = "ValueError" /\ tp_calls = <<>>
        ELSE /\ tp_calls = ExpectedCalls
             /\ tp_pc = "done"
             /\ tp_result = <<[text |-> Trimmed(tp_text),
                               entities |-> tp_extractor.returns,
                               embedding |-> tp_generator.returns[1][1]]>>

\* C24: an empty or whitespace-only text is rejected with ValueError before any
\* collaborator is called.  For every other text the extractor is called
\* exactly once, first, on the trimmed text; if it raises, the error
\* propagates and the embedding generator is not called; otherwise the
\* generator is called exactly once, on the trimmed text.  The call returns
\* (trimmed text, entities, embedding) when the generator gives a first
\* embedding that is not None; otherwise it raises.
C24_ProcessTextCallsInOrder ==
    IF Blank(tp_text)
    THEN /\ tp_calls = <<>> /\ tp_result = <<>>
         /\ tp_pc \in {"done", "raised"} => tp_pc = "raised" /\ tp_error = "ValueError"
    ELSE /\ tp_error # "ValueError"
         /\ tp_calls = SubSeq(ExpectedCalls, 1, Len(tp_calls))
         /\ tp_pc \in {"embed", "done", "raised"} => Len(tp_calls) >= 1
         /\ tp_pc \in {"done", "raised"} =>
                Len(tp_calls) = (IF tp_extractor.raises THEN 1 ELSE 2)
         /\ tp_pc = "raised" =>
                \/ tp_extractor.raises
                \/ tp_generator.raises
                \/ tp_generator.returns = <<>>
                \/ tp_generator.returns[1] = NoEmbedding
         /\ tp_pc = "done" =>
                tp_result = <<[text |-> Trimmed(tp_text),
                               entities |-> tp_extractor.returns,
                               embedding |-> tp_generator.returns[1][1]]>>

\* A text between blanks, default entity types, one mention, two embeddings of
\* which the first is returned.
C24_Witness ==
    /\ tp_pc = "done"
    /\ tp_text = <<" ", "a", "\n">>
    /\ tp_entity_types = <<>>
    /\ Len(tp_calls) = 2
    /\ tp_calls[1].text = <<"a">> /\ tp_calls[2].texts = << <<"a">> >>
    /\ tp_result = <<[text |-> <<"a">>, entities |-> << <<"a">> >>, embedding |-> <<1>>]>>

(***************************************************************************)
(* NatashaEntityExtractor (natasha_entity_extractor.py)                    *)
(*                                                                         *)
(* One instance receives a sequence of extract calls.  The model files at  *)
(* the configured paths are missing, present, or present but unreadable;   *)
(* download_model.py may put them there at any time.  Entity types are     *)
(* given stripped and in upper case.                                       *)
(***************************************************************************)
_PERSON_ALIASES == {"PERSON", "PER", "PERSONA"}
_ORG_ALIASES == {"ORGANIZATION", "ORG", "COMPANY"}
_LOC_ALIASES == {"LOCATION", "LOC", "GPE", "CITY", "COUNTRY"}

_resolve_target_labels(types) ==
    UNION {(IF types[i] \in _PERSON_ALIASES THEN {"PER"} ELSE {})
           \cup (IF types[i] \in _ORG_ALIASES THEN {"ORG"} ELSE {})
           \cup (IF types[i] \in _LOC_ALIASES THEN {"LOC"} ELSE {}) : i \in 1..Len(types)}

\* What self._load_ner_model() does: returns the cached model, loads it, or raises.
_load_ner_model(cached, files) ==
    IF cached # <<>> THEN "cached"
    ELSE IF files = "missing" THEN "FileNotFoundError"
    ELSE IF files = "unreadable" THEN "error"
    ELSE "loaded"

\* if self._disabled: return []
returns_early_when_disabled_never(disabled) == FALSE

returns_early_when_disabled(disabled) == disabled

NatashaTexts == {<<>>, <<"a">>}
NatashaEntityTypes == {<<>>, <<"DATE">>, <<"PERSON">>, <<"DATE", "CITY">>}
\* the mentions cut out of the text at the spans the model marks
NatashaSpans == {<<>>, << <<"a">> >>}

NatInit ==
    /\ model_files \in {"missing", "present", "unreadable"}
    /\ _ner_model = <<>> /\ _disabled = FALSE
    /\ load_calls = 0 /\ extract_log = <<>>
    /\ StrIdle /\ DedupIdle /\ DiffIdle /\ CompIdle /\ ChunkIdle /\ SegIdle
    /\ TpIdle /\ LoadIdle /\ FileIdle

\* One call of NatashaEntityExtractor.extract, logged as: its arguments, what
\* self._load_ner_model() did ("none" when it was not called), whether the
\* call raised, and the list it returned.
NatashaExtract ==
    /\ Len(extract_log) < MaxNatashaCalls
    /\ \E txt \in NatashaTexts, types \in NatashaEntityTypes, spans \in NatashaSpans :
         LET call == [text |-> txt, entity_types |-> types]
             logged(load, raised, result) ==
                 Append(extract_log, [text |-> txt, entity_types |-> types, load |-> load,
                                      raised |-> raised, result |-> result])
             load == _load_ner_model(_ner_model, model_files)
         IN IF \/ txt = <<>> \/ types = <<>>
               \/ _resolve_target_labels(types) = {}
               \/ returns_early_when_disabled(_disabled)
            THEN /\ extract_log' = logged("none", FALSE, <<>>)
                 /\ UNCHANGED <<_ner_model, _disabled, load_calls>>
            ELSE /\ load_calls' = load_calls + 1
                 /\ CASE load = "FileNotFoundError" ->
                           /\ _disabled' = TRUE
                           /\ extract_log' = logged(load, FALSE, <<>>)
                           /\ UNCHANGED _ner_model
                      [] load = "error" ->
                           /\ extract_log' = logged(load, TRUE, <<>>)
                           /\ UNCHANGED <<_ner_model, _disabled>>
                      [] OTHER ->
                           /\ _ner_model' = <<"ner_model">>
                           /\ extract_log' =
                                  logged(load, FALSE,
                                         deduplicate_entities(spans, Threshold(LegacyThreshold)))
                           /\ UNCHANGED _disabled
    /\ UNCHANGED model_files
    /\ UNCHANGED <<strVars, dedupVars, diffVars, compVars, chunkVars, segVars,
                   tpVars, loadVars, fileVars>>

\* download_model.py writes the model files (or fails half-way).
DownloadModels ==
    /\ model_files = "missing"
    /\ model_files' \in {"present", "unreadable"}
    /\ UNCHANGED <<_ner_model, _disabled, load_calls, extract_log>>
    /\ UNCHANGED <<strVars, dedupVars, diffVars, compVars, chunkVars, segVars,
                   tpVars, loadVars, fileVars>>

NatNext == NatashaExtract \/ DownloadModels

SpecNat == NatInit /\ [][NatNext]_vars

\* The calls in which the model loader raised FileNotFoundError.
MissingModelCalls ==
    {k \in 1..Len(extract_log) : extract_log[k].load = "FileNotFoundError"}

\* C26: the call in which the model loader first raises FileNotFoundError
\* returns [] and disables the extractor; the extractor stays disabled; every
\* later extract returns [] without calling the loader, so that the loader
\* has been called exactly once overall.
C26_DisabledAfterMissingModels ==
    /\ [](/\ _disabled <=> MissingModelCalls # {}
          /\ \A k \in MissingModelCalls :
                /\ ~extract_log[k].raised /\ extract_log[k].result = <<>>
                /\ \A j \in (k + 1)..Len(extract_log) :
                      /\ extract_log[j].load = "none"
                      /\ ~extract_log[j].raised /\ extract_log[j].result = <<>>
                /\ load_calls = 1)
    /\ [][_disabled => _disabled' /\ load_calls' = load_calls]_vars

\* Models missing at the first call that needs them, downloaded afterwards:
\* the extractor still returns [] for a text with a person in it.
C26_Witness ==
    /\ _disabled /\ model_files = "present"
    /\ Len(extract_log) = 3
    /\ extract_log[1].text = <<>> /\ extract_log[1].load = "none"
    /\ extract_log[2].load = "FileNotFoundError"
    /\ extract_log[3].text = <<"a">> /\ extract_log[3].entity_types = <<"PERSON">>
    /\ extract_log[3].result = <<>>
    /\ load_calls = 1

(***************************************************************************)
(* GlinerEntityExtractor._load_model (gliner_entity_extractor.py)          *)
(*                                                                         *)
(* The application builds one extractor and serves every request with it;  *)
(* the request handlers are plain functions, which the web framework runs  *)
(* on worker threads.  Each worker makes calls of extract one after the    *)
(* other; the steps of different workers interleave.  A model instance is  *)
(* the number of the load that produced it; self._model is <<>> for None.  *)
(***************************************************************************)
Workers == 1..MaxRequests

\* if self._model is None
model_is_none(model) == model = <<>>

LoadInit ==
    /\ _model = <<>> /\ loaded_count = 0 /\ models_used = <<>>
    /\ request_pc = [w \in Workers |-> "idle"]
    /\ request_model = [w \in Workers |-> <<>>]
    /\ request_calls = [w \in Workers |-> 0]
    /\ StrIdle /\ DedupIdle /\ DiffIdle /\ CompIdle /\ ChunkIdle /\ SegIdle /\ TpIdle
    /\ NatIdle /\ FileIdle

\* extract is called: an empty text or no entity types returns [] at once,
\* anything else enters _load_model.
GlinerExtractBegin(w) ==
    /\ request_pc[w] = "idle"
    /\ request_calls[w] < MaxGlinerCalls
    /\ request_calls' = [request_calls EXCEPT ![w] = @ + 1]
    /\ \E txt \in CompTexts, types \in CompEntityTypes :
         request_pc' = [request_pc EXCEPT
                          ![w] = IF txt = <<>> \/ types = <<>> THEN "idle" ELSE "check"]
    /\ UNCHANGED <<_model, loaded_count, request_model, models_used>>
    /\ UNCHANGED <<strVars, dedupVars, diffVars, compVars, chunkVars, segVars, tpVars,
                   natVars, fileVars>>

\* _load_model: if self._model is None
LoadModelCheck(w) ==
    /\ request_pc[w] = "check"
    /\ request_pc' = [request_pc EXCEPT
                        ![w] = IF model_is_none(_model) THEN "load" ELSE "return"]
    /\ UNCHANGED <<_model, loaded_count, request_model, request_calls, models_used>>
    /\ UNCHANGED <<strVars, dedupVars, diffVars, compVars, chunkVars, segVars, tpVars,
                   natVars, fileVars>>

\* _load_model: GLiNER.from_pretrained(...) returns a new model, or raises and
\* the call of extract ends with the exception.
FromPretrained(w) ==
    /\ request_pc[w] = "load"
    /\ \/ /\ loaded_count' = loaded_count + 1
          /\ request_model' = [request_model EXCEPT ![w] = <<loaded_count + 1>>]
          /\ request_pc' = [request_pc EXCEPT ![w] = "store"]
       \/ /\ request_pc' = [request_pc EXCEPT ![w] = "idle"]
          /\ UNCHANGED <<loaded_count, request_model>>
    /\ UNCHANGED <<_model, request_calls, models_used>>
    /\ UNCHANGED <<strVars, dedupVars, diffVars, compVars, chunkVars, segVars, tpVars,
                   natVars, fileVars>>

\* _load_model: self._model = <the model just loaded>
StoreModel(w) ==
    /\ request_pc[w] = "store"
    /\ _model' = request_model[w]
    /\ request_model' = [request_model EXCEPT ![w] = <<>>]
    /\ request_pc' = [request_pc EXCEPT ![w] = "return"]
    /\ UNCHANGED <<loaded_count, request_calls, models_used>>
    /\ UNCHANGED <<strVars, dedupVars, diffVars, compVars, chunkVars, segVars, tpVars,
                   natVars, fileVars>>

\* _load_model: return self._model; extract predicts with it and returns.
ReturnModel(w) ==
    /\ request_pc[w] = "return"
    /\ models_used' = Append(models_used, _model[1])
    /\ request_pc' = [request_pc EXCEPT ![w] = "idle"]
    /\ UNCHANGED <<_model, loaded_count, request_model, request_calls>>
    /\ UNCHANGED <<strVars, dedupVars, diffVars, compVars, chunkVars, segVars, tpVars,
                   natVars, fileVars>>

LoadNext ==
    \E w \in Workers :
        \/ GlinerExtractBegin(w)
        \/ LoadModelCheck(w)
        \/ FromPretrained(w)
        \/ StoreModel(w)
        \/ ReturnModel(w)

SpecLoad == LoadInit /\ [][LoadNext]_vars

\* C25: on one instance, however the calls of concurrent requests interleave,
\* GLiNER.from_pretrained completes successfully at most once and every call
\* predicts with the same model instance.
C25_ModelLoadedAtMostOnce ==
    /\ loaded_count <= 1
    /\ \A i, j \in 1..Len(models_used) : models_used[i] = models_used[j]

(***************************************************************************)
(* FileProcessingService (file_processing_service.py)                      *)
(*                                                                         *)
(* A chunk text is written word by word: a word is its number of           *)
(* characters, whether its last character is one of . ! ?, and the         *)
(* whitespace character that precedes it ("" for the first word), so that  *)
(* texts longer than NER_CHUNK_SIZE stay small values.  Mentions are       *)
(* strings of characters as before.                                        *)
(***************************************************************************)
NER_CHUNK_SIZE == 1200

WordLengths == {1, 599, 600, 1201}

Word(n, stop, sep) == [len |-> n, stop |-> stop, sep |-> sep]

\* the word as the first word of a string
Leading(word) == [word EXCEPT !.sep = ""]

\* len(text)
RECURSIVE str_len(_)
str_len(txt) ==
    IF txt = <<>> THEN 0
    ELSE txt[1].len + (IF txt[1].sep = "" THEN 0 ELSE 1) + str_len(Tail(txt))

\* f"{left} {right}"
joined(left, right) == left \o <<[right[1] EXCEPT !.sep = " "]>> \o Tail(right)

\* re.split(r"(?<=[.!?])\s+|\n+", text): does a new part start at word i?
starts_sentence(txt, i) == i > 1 /\ (txt[i].sep = "\n" \/ txt[i - 1].stop)

RECURSIVE sentences_from(_, _, _, _)
sentences_from(txt, i, part, parts) ==
    IF i > Len(txt) THEN (IF part = <<>> THEN parts ELSE Append(parts, part))
    ELSE IF starts_sentence(txt, i)
         THEN sentences_from(txt, i + 1, <<Leading(txt[i])>>, Append(parts, part))
         ELSE sentences_from(txt, i + 1,
                             Append(part, IF part = <<>> THEN Leading(txt[i]) ELSE txt[i]),
                             parts)

_split_into_sentences(txt) == sentences_from(txt, 1, <<>>, <<>>)

\* len(candidate) <= NER_CHUNK_SIZE
fits_one_more(candidate) == str_len(candidate) <= NER_CHUNK_SIZE + 1

fits(candidate) == str_len(candidate) <= NER_CHUNK_SIZE

\* the loop of _split_long_sentence_by_words over sentence.split()
RECURSIVE words_loop(_, _, _, _)
words_loop(sentence, i, current_chunk, sub_chunks) ==
    IF i > Len(sentence)
    THEN (IF current_chunk # <<>> THEN Append(sub_chunks, current_chunk) ELSE sub_chunks)
    ELSE LET word == <<Leading(sentence[i])>>
         IN IF current_chunk = <<>> THEN words_loop(sentence, i + 1, word, sub_chunks)
            ELSE IF fits(joined(current_chunk, word))
                 THEN words_loop(sentence, i + 1, joined(current_chunk, word), sub_chunks)
                 ELSE words_loop(sentence, i + 1, word, Append(sub_chunks, current_chunk))

_split_long_sentence_by_words(sentence) ==
    IF sentence = <<>> THEN <<>> ELSE words_loop(sentence, 1, <<>>, <<>>)

\* the loop of _split_text_for_ner over the sentences
RECURSIVE sentences_loop(_, _, _, _)
sentences_loop(sentences, i, current_chunk, sub_chunks) ==
    IF i > Len(sentences)
    THEN (IF current_chunk # <<>> THEN Append(sub_chunks, current_chunk) ELSE sub_chunks)
    ELSE LET sentence == sentences[i]
         IN IF ~fits(sentence)
            THEN sentences_loop(sentences, i + 1, <<>>,
                                (IF current_chunk # <<>> THEN Append(sub_chunks, current_chunk)
                                 ELSE sub_chunks) \o _split_long_sentence_by_words(sentence))
            ELSE IF current_chunk = <<>>
                 THEN sentences_loop(sentences, i + 1, sentence, sub_chunks)
                 ELSE IF fits(joined(current_chunk, sentence))
                      THEN sentences_loop(sentences, i + 1, joined(current_chunk, sentence),
                                          sub_chunks)
                      ELSE sentences_loop(sentences, i + 1, sentence,
                                          Append(sub_chunks, current_chunk))

_split_text_for_ner(txt) ==
    IF txt = <<>> THEN <<>>
    ELSE IF fits(txt) THEN <<txt>>
    ELSE sentences_loop(_split_into_sentences(txt), 1, <<>>, <<>>)

\* FileChunk(id=..., text=..., entities=..., embedding=...)
EnrichedFileChunk(id, txt, ents, embedding) ==
    [id |-> id, text |-> txt, entities |-> ents, embedding |-> embedding]

\* The outcome of the k-th call of self._entity_extractor.extract: the
\* extractor's outcomes repeat in a cycle.
extractor_outcome(script, k) == script[((k - 1) % Len(script)) + 1]

\* the loop of _extract_entities_for_chunk: the entities extended so far after
\* the sub-chunks from i on, the first of them being the k-th call of extract
RECURSIVE extend_from_sub_chunks(_, _, _, _, _)
extend_from_sub_chunks(sub_chunks, i, script, k, extracted_entities) ==
    IF i > Len(sub_chunks) THEN extracted_entities
    ELSE LET outcome == extractor_outcome(script, k)
         IN extend_from_sub_chunks(sub_chunks, i + 1, script, k + 1,
                IF outcome.raises THEN extracted_entities
                ELSE extracted_entities \o outcome.returns)

_extract_entities_for_chunk(chunk, script, k) ==
    deduplicate_entities(
        extend_from_sub_chunks(_split_text_for_ner(chunk.text), 1, script, k, <<>>),
        Threshold(LegacyThreshold))

\* normalized_embeddings: list(embeddings)[: len(chunks)], padded with None
normalize_embeddings_unpadded(embeddings, n) ==
    IF Len(embeddings) # n THEN SubSeq(embeddings, 1, Min(n, Len(embeddings)))
    ELSE embeddings

normalize_embeddings(embeddings, n) ==
    IF Len(embeddings) # n
    THEN SubSeq(embeddings, 1, Min(n, Len(embeddings)))
         \o [i \in 1..(n - Min(n, Len(embeddings))) |-> NoEmbedding]
    ELSE embeddings

\* all_entities of _collect_all_entities
RECURSIVE entities_of_chunks(_)
entities_of_chunks(chs) ==
    IF chs = <<>> THEN <<>> ELSE chs[1].entities \o entities_of_chunks(Tail(chs))

_collect_all_entities_default(chs) ==
    deduplicate_entities(entities_of_chunks(chs), NoThreshold)

_collect_all_entities(chs) ==
    deduplicate_entities(entities_of_chunks(chs), Threshold(LegacyThreshold))

WordsAfterFirst == {Word(n, st, sep) : n \in WordLengths, st \in BOOLEAN, sep \in {" ", "\n"}}
FirstWords == {Word(n, st, "") : n \in WordLengths, st \in BOOLEAN}

\* Texts of at most n words.
ChunkTexts(n) ==
    {<<>>} \cup UNION {{<<w>> \o rest : w \in FirstWords, rest \in [1..k -> WordsAfterFirst]}
                       : k \in 0..(n - 1)}

\* A word, and two sentences that together are one character over the limit.
FileTexts == {<<Word(1, FALSE, "")>>, <<Word(600, TRUE, ""), Word(600, FALSE, " ")>>}

FileExtractorOutcomes ==
    {[raises |-> TRUE, returns |-> <<>>],
     [raises |-> FALSE, returns |-> <<Letters(4, 0)>>],
     [raises |-> FALSE, returns |-> <<Letters(4, 3)>>],
     [raises |-> FALSE, returns |-> <<Letters(4, 1), Letters(4, 4)>>]}

FileGeneratorOutcomes(n) ==
    {[raises |-> TRUE, returns |-> <<>>]}
    \cup {[raises |-> FALSE, returns |-> e] :
            e \in SeqsUpTo({NoEmbedding, Embedding(<<1>>)}, n + 1)}

\* The chunks as the chunker returns them: ids from 0, no entities, no embedding.
ChunksOf(texts) ==
    [i \in 1..Len(texts) |-> EnrichedFileChunk(i - 1, texts[i], <<>>, NoEmbedding)]

FileStart ==
    /\ chunks_with_entities = <<>> /\ extract_calls = <<>>
    /\ chunks_with_embeddings = <<>> /\ fp_entities = <<>> /\ fp_pc = "extract"
    /\ StrIdle /\ DedupIdle /\ DiffIdle /\ CompIdle /\ ChunkIdle /\ SegIdle /\ TpIdle
    /\ NatIdle /\ LoadIdle

\* process_file after the chunker returned any list of chunks
FileInit ==
    /\ fp_chunks \in {ChunksOf(texts) : texts \in SeqsUpTo(FileTexts, MaxChunks)}
    /\ fp_extractor \in SeqsUpTo(FileExtractorOutcomes, MaxScript) \ {<<>>}
    /\ fp_generator \in FileGeneratorOutcomes(Len(fp_chunks))
    /\ FileStart

\* process_file after the chunker returned one chunk with any text
NerInit ==
    /\ fp_chunks \in {ChunksOf(<<txt>>) : txt \in ChunkTexts(MaxWords)}
    /\ fp_extractor \in {<<o>> : o \in {[raises |-> TRUE, returns |-> <<>>],
                                        [raises |-> FALSE, returns |-> <<Letters(4, 0)>>]}}
    /\ fp_generator = [raises |-> FALSE, returns |-> <<>>]
    /\ FileStart

\* One iteration of the loop of _extract_entities_from_chunks: all of
\* _extract_entities_for_chunk and the rebuilt chunk.
ExtractEntitiesForChunk ==
    /\ fp_pc = "extract"
    /\ Len(chunks_with_entities) < Len(fp_chunks)
    /\ LET chunk == fp_chunks[Len(chunks_with_entities) + 1]
           sub_chunks == _split_text_for_ner(chunk.text)
           ents == _extract_entities_for_chunk(chunk, fp_extractor, Len(extract_calls) + 1)
       IN /\ extract_calls' = extract_calls \o sub_chunks
          /\ chunks_with_entities' =
                 Append(chunks_with_entities,
                        EnrichedFileChunk(chunk.id, chunk.text, ents, chunk.embedding))
    /\ UNCHANGED <<fp_chunks, fp_extractor, fp_generator, chunks_with_embeddings,
                   fp_entities, fp_pc>>
    /\ UNCHANGED <<strVars, dedupVars, diffVars, compVars, chunkVars, segVars, tpVars,
                   natVars, loadVars>>

\* _generate_embeddings_for_chunks, once the loop above is over
GenerateEmbeddingsForChunks ==
    /\ fp_pc = "extract"
    /\ Len(chunks_with_entities) = Len(fp_chunks)
    /\ LET chs == chunks_with_entities
           embeddings ==
               normalize_embeddings(
                   IF fp_generator.raises THEN [i \in 1..Len(chs) |-> NoEmbedding]
                   ELSE fp_generator.returns,
                   Len(chs))
       IN chunks_with_embeddings' =
              IF chs = <<>> THEN <<>>
              ELSE [i \in 1..Min(Len(chs), Len(embeddings)) |->
                        EnrichedFileChunk(chs[i].id, chs[i].text, chs[i].entities,
                                          embeddings[i])]
    /\ fp_pc' = "collect"
    /\ UNCHANGED <<fp_chunks, fp_extractor, fp_generator, chunks_with_entities,
                   extract_calls, fp_entities>>
    /\ UNCHANGED <<strVars, dedupVars, diffVars, compVars, chunkVars, segVars, tpVars,
                   natVars, loadVars>>

\* all_entities = self._collect_all_entities(chunks_with_embeddings), and the return
CollectAllEntities ==
    /\ fp_pc = "collect"
    /\ fp_entities' = _collect_all_entities(chunks_with_embeddings)
    /\ fp_pc' = "done"
    /\ UNCHANGED <<fp_chunks, fp_extractor, fp_generator, chunks_with_entities,
                   extract_calls, chunks_with_embeddings>>
    /\ UNCHANGED <<strVars, dedupVars, diffVars, compVars, chunkVars, segVars, tpVars,
                   natVars, loadVars>>

FileNext == ExtractEntitiesForChunk \/ GenerateEmbeddingsForChunks \/ CollectAllEntities

SpecFile == FileInit /\ [][FileNext]_vars

NerNext == ExtractEntitiesForChunk

SpecNer == NerInit /\ [][NerNext]_vars

\* C23 as claimed: every sub-chunk passed to extract is non-empty and at most
\* NER_CHUNK_SIZE characters long, whatever the chunk text.
C23_SubChunksWithinLimit ==
    \A k \in 1..Len(extract_calls) :
        extract_calls[k] # <<>> /\ str_len(extract_calls[k]) <= NER_CHUNK_SIZE

\* C23: every sub-chunk passed to extract is non-empty, and is at most
\* NER_CHUNK_SIZE characters long unless it is a single word (a whitespace-free
\* run) that is itself longer than the limit, which is passed whole.
C23_SubChunksWithinLimitOrOneWord ==
    \A k \in 1..Len(extract_calls) :
        /\ extract_calls[k] # <<>>
        /\ str_len(extract_calls[k]) >= 1
        /\ \/ str_len(extract_calls[k]) <= NER_CHUNK_SIZE
           \/ Len(extract_calls[k]) = 1 /\ extract_calls[k][1].len > NER_CHUNK_SIZE

\* One sentence of 1804 characters whose middle word has 1201: the word is
\* passed whole, between its neighbours.
C23_Witness ==
    /\ Len(chunks_with_entities) = 1
    /\ fp_chunks[1].text = <<Word(600, FALSE, ""), Word(1201, FALSE, " "), Word(1, FALSE, " ")>>
    /\ extract_calls = << <<Word(600, FALSE, "")>>, <<Word(1201, FALSE, "")>>,
                          <<Word(1, FALSE, "")>> >>

\* The entities of the output chunks, concatenated in chunk order.
ChunkEntities == entities_of_chunks(chunks_with_embeddings)

\* The document-level list is the deduplication of the chunks' entities under
\* the given threshold: first-seen representatives, pairwise not similar,
\* every chunk entity similar to one of them.
DocumentEntitiesUnder(thr) ==
    LET all == ChunkEntities
        K == CHOOSE I \in SUBSET (1..Len(all)) : FirstSeenIndices(all, thr, I)
    IN /\ fp_entities = PickTrimmed(all, K, 1)
       /\ \A i, j \in 1..Len(fp_entities) :
              i # j => ~SimilarFor(thr, fp_entities[i], fp_entities[j])
       /\ \A j \in 1..Len(all) :
              \E i \in 1..Len(fp_entities) : SimilarFor(thr, all[j], fp_entities[i])

\* C22 as claimed: the document-level entity list is the Contract C
\* deduplication, under the relative threshold, of the chunks' entity lists
\* concatenated in chunk order.
C22_DocumentEntitiesRelative ==
    fp_pc = "done" => DocumentEntitiesUnder(NoThreshold)

\* C22: the document-level entity list is the deduplication, under the
\* absolute threshold 2, of the chunks' entity lists concatenated in chunk
\* order: no two of its entries are within 2 edits of each other and every
\* chunk entity is within 2 edits of some entry.
C22_DocumentEntitiesAbsolute ==
    fp_pc = "done" => DocumentEntitiesUnder(Threshold(2))

\* Two chunks with mentions 3 edits apart, and one 1 edit from the first: the
\* document keeps the two that are 3 apart.
C22_Witness ==
    /\ fp_pc = "done"
    /\ Len(chunks_with_embeddings) = 2
    /\ chunks_with_embeddings[1].entities = <<Letters(4, 0)>>
    /\ chunks_with_embeddings[2].entities = <<Letters(4, 1), Letters(4, 4)>>
    /\ fp_entities = <<Letters(4, 0), Letters(4, 4)>>

====
